---- MODULE Spec2Model ----
(***************************************************************************)
(* A model of the Monkey front end: the Lexer (lexer/lexer.go), the token  *)
(* table (token/token.go) and the Pratt Parser (parser/parser.go).         *)
(*                                                                         *)
(* A Go string is modelled as a sequence of bytes; a byte is written as a  *)
(* one-character string ("a", "=", ...) and the byte 0 as NUL.  ByteCode   *)
(* gives the numeric value the Go code compares.                           *)
(***************************************************************************)
EXTENDS Integers, Sequences, FiniteSets, TLC

VARIABLES
    \* ---- lexer.Lexer ----
    input,          \* l.input
    position,       \* l.position
    readPosition,   \* l.readPosition
    ch,             \* l.ch
    panicked,       \* TRUE once an index or slice expression went out of range
    lastTok,        \* the token the last NextToken call returned
    emitted,        \* history: every token returned, with l.position at entry
    lexCalls,       \* history: number of NextToken calls made
    \* ---- parser.Parser ----
    stream,         \* the tokens p.l returns, in order; EOF forever after them
    lexPos,         \* number of tokens p.l has returned so far
    curToken,       \* p.curToken
    peekToken,      \* p.peekToken
    errors,         \* p.errors
    program,        \* the *ast.Program that ParseProgram builds
    stack,          \* call stack of the parse functions, innermost last
    ret,            \* the value the last returning function returned
    \* ---- the caller of ParseProgram and Program.String ----
    printed,        \* what the calls of program.String() made so far returned
    reparsed,       \* the rendering that was lexed and parsed again
    pass            \* 1: the given input is parsed; 2: a rendering of it is

lexVars == <<input, position, readPosition, ch, panicked, lastTok, emitted,
             lexCalls>>

parserVars == <<stream, lexPos, curToken, peekToken, errors, program, stack,
                ret>>

printVars == <<printed, reparsed, pass>>

vars == <<lexVars, parserVars, printVars>>

(***************************************************************************)
(* Bounds                                                                  *)
(***************************************************************************)
MaxInputLen == 3       \* longest input drawn from LexAlphabet
MaxExtraCalls == 2     \* NextToken calls made beyond len(input)+1

(***************************************************************************)
(* Bytes and strings                                                       *)
(***************************************************************************)
NUL == "NUL"

ByteCode ==
    "NUL" :> 0 @@ "\t" :> 9 @@ "\n" :> 10 @@ "\r" :> 13 @@ " " :> 32 @@
    "!" :> 33 @@ 
    "(" :> 40 @@ ")" :> 41 @@ "*" :> 42 @@
    "+" :> 43 @@ "," :> 44 @@ "-" :> 45 @@ "/" :> 47 @@
    "0" :> 48 @@ "1" :> 49 @@ "2" :> 50 @@ "3" :> 51 @@ "4" :> 52 @@
    "5" :> 53 @@ "6" :> 54 @@ "7" :> 55 @@ "8" :> 56 @@ "9" :> 57 @@
    ":" :> 58 @@ ";" :> 59 @@ "<" :> 60 @@ "=" :> 61 @@ ">" :> 62 @@
    "@" :> 64 @@ "A" :> 65 @@ "B" :> 66 @@ "C" :> 67 @@
    "D" :> 68 @@ "E" :> 69 @@ "F" :> 70 @@ "G" :> 71 @@ "H" :> 72 @@
    "I" :> 73 @@ "J" :> 74 @@ "K" :> 75 @@ "L" :> 76 @@ "M" :> 77 @@
    "N" :> 78 @@ "O" :> 79 @@ "P" :> 80 @@ "Q" :> 81 @@ "R" :> 82 @@
    "S" :> 83 @@ "T" :> 84 @@ "U" :> 85 @@ "V" :> 86 @@ "W" :> 87 @@
    "X" :> 88 @@ "Y" :> 89 @@ "Z" :> 90 @@ "[" :> 91 @@ 
    "]" :> 93 @@ "_" :> 95 @@ "a" :> 97 @@
    "b" :> 98 @@ "c" :> 99 @@ "d" :> 100 @@ "e" :> 101 @@ "f" :> 102 @@
    "g" :> 103 @@ "h" :> 104 @@ "i" :> 105 @@ "j" :> 106 @@ "k" :> 107 @@
    "l" :> 108 @@ "m" :> 109 @@ "n" :> 110 @@ "o" :> 111 @@ "p" :> 112 @@
    "q" :> 113 @@ "r" :> 114 @@ "s" :> 115 @@ "t" :> 116 @@ "u" :> 117 @@
    "v" :> 118 @@ "w" :> 119 @@ "x" :> 120 @@ "y" :> 121 @@ "z" :> 122 @@
    "{" :> 123 @@ "}" :> 125

\* the strings of length at most n over the bytes of S
RECURSIVE StringsUpTo(_, _)
StringsUpTo(S, n) ==
    IF n = 0 THEN {<<>>}
    ELSE LET shorter == StringsUpTo(S, n - 1)
         IN  shorter \cup {Append(s, c) : s \in shorter, c \in S}

\* Go's s[lo:hi] on a string, for 0 <= lo <= hi <= len(s)
Slice(s, lo, hi) == SubSeq(s, lo + 1, hi)

(***************************************************************************)
(* token/token.go                                                          *)
(***************************************************************************)
ILLEGAL == "ILLEGAL"
EOF == "EOF"
IDENT == "IDENT"
INT == "INT"
ASSIGN == "="
PLUS == "+"
MINUS == "-"
BANG == "!"
ASTERISK == "*"
SLASH == "/"
LT == "<"
GT == ">"
EQ == "=="
NOT_EQ == "!="
COMMA == ","
SEMICOLON == ";"
LPAREN == "("
RPAREN == ")"
LBRACE == "{"
RBRACE == "}"
FUNCTION == "FUNCTION"
LET_ == "LET"
TRUE_ == "TRUE"
FALSE_ == "FALSE"
IF_ == "IF"
ELSE_ == "ELSE"
RETURN == "RETURN"
STRING_ == "STRING"

\* token types the parser names whose declaration is not in token.go
LBRACKET == "["
RBRACKET == "]"
COLON == ":"

\* token.Token{Type, Literal}
Token(type, literal) == [Type |-> type, Literal |-> literal]

\* the zero value of token.Token
ZeroToken == Token("", <<>>)

keywords ==
    <<"f", "n">> :> FUNCTION @@
    <<"l", "e", "t">> :> LET_ @@
    <<"t", "r", "u", "e">> :> TRUE_ @@
    <<"f", "a", "l", "s", "e">> :> FALSE_ @@
    <<"i", "f">> :> IF_ @@
    <<"e", "l", "s", "e">> :> ELSE_ @@
    <<"r", "e", "t", "u", "r", "n">> :> RETURN

LookupIdent(ident) ==
    IF ident \in DOMAIN keywords THEN keywords[ident] ELSE IDENT

(***************************************************************************)
(* lexer/lexer.go.  A Lexer value is the record                            *)
(*   [input, position, readPosition, ch, panicked].                        *)
(***************************************************************************)
isLetter(c) ==
    \/ ByteCode["a"] <= ByteCode[c] /\ ByteCode[c] <= ByteCode["z"]
    \/ ByteCode["A"] <= ByteCode[c] /\ ByteCode[c] <= ByteCode["Z"]
    \/ c = "_"

\* mutant: the literal is taken from the type, not from the byte
newToken_TypeAsLiteral(tokenType, c) == Token(tokenType, <<tokenType>>)

newToken(tokenType, c) == Token(tokenType, <<c>>)

\* l.input[i]: out of range is a run-time panic
IndexInput(l, i) ==
    IF i >= 0 /\ i < Len(l.input)
    THEN [l EXCEPT !.ch = l.input[i + 1]]
    ELSE [l EXCEPT !.panicked = TRUE]

\* mutant: the end test is off by one
readChar_OffByOne(l) ==
    LET l1 == IF l.readPosition > Len(l.input)
              THEN [l EXCEPT !.ch = NUL]
              ELSE IndexInput(l, l.readPosition)
    IN  [l1 EXCEPT !.position = l.readPosition,
                   !.readPosition = l.readPosition + 1]

readChar(l) ==
    LET l1 == IF l.readPosition >= Len(l.input)
              THEN [l EXCEPT !.ch = NUL]
              ELSE IndexInput(l, l.readPosition)
    IN  [l1 EXCEPT !.position = l.readPosition,
                   !.readPosition = l.readPosition + 1]

\* the loop of readIdentifier: for isLetter(l.ch) { l.readChar() }
RECURSIVE readIdentifierLoop(_)
readIdentifierLoop(l) ==
    IF ~l.panicked /\ isLetter(l.ch)
    THEN readIdentifierLoop(readChar(l))
    ELSE l

\* returns the lexer after the loop and the slice l.input[position:l.position]
readIdentifier(l) ==
    LET start == l.position
        l1 == readIdentifierLoop(l)
        ok == ~l1.panicked /\ start <= l1.position
                 /\ l1.position <= Len(l1.input)
    IN  [l   |-> IF ok THEN l1 ELSE [l1 EXCEPT !.panicked = TRUE],
         str |-> IF ok THEN Slice(l1.input, start, l1.position) ELSE <<>>]

\* lexer.New
NewLexer(in) ==
    readChar([input |-> in, position |-> 0, readPosition |-> 0, ch |-> NUL,
              panicked |-> FALSE])

\* NextToken: returns the lexer after the call and the token returned
LexerNextToken(l) ==
    LET single(type) == [l |-> readChar(l), tok |-> newToken(type, l.ch)]
    IN  CASE l.ch = "=" -> single(ASSIGN)
          [] l.ch = ";" -> single(SEMICOLON)
          [] l.ch = "(" -> single(LPAREN)
          [] l.ch = ")" -> single(RPAREN)
          [] l.ch = "," -> single(COMMA)
          [] l.ch = "+" -> single(PLUS)
          [] l.ch = "{" -> single(LBRACE)
          [] l.ch = "}" -> single(RBRACE)
          [] l.ch = NUL -> [l |-> readChar(l), tok |-> Token(EOF, <<>>)]
          [] OTHER ->
               IF isLetter(l.ch)
               THEN LET r == readIdentifier(l)
                    IN  [l |-> r.l, tok |-> Token("", r.str)]
               ELSE single(ILLEGAL)

\* the tokens of the first n NextToken calls on lexer l
RECURSIVE LexTokens(_, _)
LexTokens(l, n) ==
    IF n = 0 \/ l.panicked THEN <<>>
    ELSE LET r == LexerNextToken(l)
         IN  <<r.tok>> \o LexTokens(r.l, n - 1)

(***************************************************************************)
(* The lexer as a state machine: one NextToken call per step.              *)
(***************************************************************************)
LexAlphabet == {NUL, " ", "=", "!", "+", "-", "(", "l", "e", "t", "_", "5"}

LexScenarios ==
    { <<"l", "e", "t", " ", "x", " ", "=", " ", "5", ";">>,
      <<"f", "n", "(", "a", ",", "b", ")", "{", "}">>,
      <<"r", "e", "t", "u", "r", "n", "\t", "t", "r", "u", "e">>,
      <<"i", "f", "\n", "e", "l", "s", "e", "\r", "f", "a", "l", "s", "e">>,
      <<"a", "=", "=", "b", "!", "=", "c">>,
      <<"[", "1", "]", ":", "*", "/", "<", ">">> }

LexInputs == StringsUpTo(LexAlphabet, MaxInputLen) \cup LexScenarios

Lexer == [input |-> input, position |-> position,
          readPosition |-> readPosition, ch |-> ch, panicked |-> panicked]

\* no String call made yet
PrinterIdle ==
    /\ printed = <<>>
    /\ reparsed = [panic |-> FALSE, out |-> <<>>]
    /\ pass = 1

LexInit ==
    /\ input \in LexInputs
    /\ LET l == NewLexer(input)
       IN  /\ position = l.position
           /\ readPosition = l.readPosition
           /\ ch = l.ch
           /\ panicked = l.panicked
    /\ lastTok = ZeroToken
    /\ emitted = <<>>
    /\ lexCalls = 0
    /\ PrinterIdle
    /\ stream = <<>>
    /\ lexPos = 0
    /\ curToken = ZeroToken
    /\ peekToken = ZeroToken
    /\ errors = <<>>
    /\ program = [kind |-> "Program", nilptr |-> TRUE]
    /\ stack = <<>>
    /\ ret = [kind |-> "nil"]

NextToken ==
    /\ ~panicked
    /\ lexCalls < Len(input) + 1 + MaxExtraCalls
    /\ LET r == LexerNextToken(Lexer)
       IN  /\ position' = r.l.position
           /\ readPosition' = r.l.readPosition
           /\ ch' = r.l.ch
           /\ panicked' = r.l.panicked
           /\ lastTok' = r.tok
           /\ emitted' = Append(emitted, [tok |-> r.tok, at |-> position])
    /\ lexCalls' = lexCalls + 1
    /\ UNCHANGED <<input, parserVars, printVars>>

LexNext == NextToken

LexSpec == LexInit /\ [][LexNext]_vars

(***************************************************************************)
(* Properties of the lexer                                                 *)
(***************************************************************************)
\* the byte under the cursor when the i-th token was recognised
ByteAt(i) == input[emitted[i].at + 1]

\* the i-th call was made with the cursor on a byte of the input
OnInput(i) == emitted[i].at < Len(input)

\* the cursor after the i-th call
CursorAfter(i) ==
    IF i < Len(emitted) THEN emitted[i + 1].at ELSE position

\* C5: once NextToken has returned EOF, the next call returns EOF with an
\* empty literal as well.
C5_EofIsSticky ==
    [][lastTok.Type = EOF
         => lastTok'.Type = EOF /\ lastTok'.Literal = <<>>]_vars

\* C6: no call indexes or slices the input out of range, and among the
\* first len(input)+1 calls one returns EOF.
C6_LexerTotality ==
    /\ ~panicked
    /\ lexCalls >= Len(input) + 1
         => \E i \in 1..(Len(input) + 1) : emitted[i].tok.Type = EOF

\* the first EOF came with call len(input)+1, and a call was made after it
C6_Witness ==
    /\ Len(input) >= 2
    /\ lexCalls = Len(input) + 2
    /\ \A i \in 1..Len(input) : emitted[i].tok.Type # EOF
    /\ emitted[Len(input) + 1].tok.Type = EOF

Whitespace == {" ", "\t", "\n", "\r"}

\* the tokens NextToken returns on lexer l up to the first EOF, within n calls
RECURSIVE TokensToEOF(_, _)
TokensToEOF(l, n) ==
    IF n = 0 \/ l.panicked THEN <<>>
    ELSE LET r == LexerNextToken(l)
         IN  IF r.tok.Type = EOF THEN <<r.tok>>
             ELSE <<r.tok>> \o TokensToEOF(r.l, n - 1)

AllTokens(s) == TokensToEOF(NewLexer(s), Len(s) + 1)

\* s with byte w put in before index at
InsertAt(s, at, w) == SubSeq(s, 1, at) \o <<w>> \o SubSeq(s, at + 1, Len(s))

\* C8: no token has a whitespace byte as its literal, and a whitespace byte
\* put in between two tokens, where the second starts, leaves the tokens of
\* the input as they are.
C8_SkipsWhitespace ==
    /\ \A i \in DOMAIN emitted :
          \A w \in Whitespace : emitted[i].tok.Literal # <<w>>
    /\ \A i \in 2..Len(emitted) :
          \A w \in Whitespace :
            AllTokens(InsertAt(input, emitted[i].at, w)) = AllTokens(input)

\* the maximal run of letters and underscores of s from index at on
RECURSIVE LetterRun(_, _)
LetterRun(s, at) ==
    IF at < Len(s) /\ isLetter(s[at + 1])
    THEN <<s[at + 1]>> \o LetterRun(s, at + 1)
    ELSE <<>>

\* C9: called on a letter or an underscore, NextToken returns the maximal
\* run of letters and underscores, typed by the keyword table, and leaves the
\* cursor on the byte after the run.
C9_IdentifiersAndKeywords ==
    \A i \in DOMAIN emitted :
        OnInput(i) /\ isLetter(ByteAt(i))
        => LET run == LetterRun(input, emitted[i].at)
           IN  /\ emitted[i].tok.Literal = run
               /\ emitted[i].tok.Type = LookupIdent(run)
               /\ CursorAfter(i) = emitted[i].at + Len(run)

\* the token type of each one-byte operator and delimiter
SingleByteType ==
    "+" :> PLUS @@ "-" :> MINUS @@ "*" :> ASTERISK @@ "/" :> SLASH @@
    "<" :> LT @@ ">" :> GT @@ "," :> COMMA @@ ";" :> SEMICOLON @@
    ":" :> COLON @@ "(" :> LPAREN @@ ")" :> RPAREN @@ "{" :> LBRACE @@
    "}" :> RBRACE @@ "[" :> LBRACKET @@ "]" :> RBRACKET

\* C10: every operator and delimiter is returned as one token of its type
\* with the lexeme as literal; == and != are one token of two bytes, and = and
\* ! not followed by = are ASSIGN and BANG.
C10_OperatorsAndDelimiters ==
    \A i \in DOMAIN emitted :
        OnInput(i) =>
            LET c == ByteAt(i)
                at == emitted[i].at
                eqNext == at + 1 < Len(input) /\ input[at + 2] = "="
            IN  /\ c \in DOMAIN SingleByteType
                     => /\ emitted[i].tok = Token(SingleByteType[c], <<c>>)
                        /\ CursorAfter(i) = at + 1
                /\ c = "=" /\ eqNext
                     => /\ emitted[i].tok = Token(EQ, <<"=", "=">>)
                        /\ CursorAfter(i) = at + 2
                /\ c = "!" /\ eqNext
                     => /\ emitted[i].tok = Token(NOT_EQ, <<"!", "=">>)
                        /\ CursorAfter(i) = at + 2
                /\ c = "=" /\ ~eqNext
                     => emitted[i].tok = Token(ASSIGN, <<"=">>)
                /\ c = "!" /\ ~eqNext
                     => emitted[i].tok = Token(BANG, <<"!">>)

\* the maximal run of digits of s from index at on
RECURSIVE DigitRun(_, _)
DigitRun(s, at) ==
    IF at < Len(s) /\ s[at + 1] \in {"0", "1", "2", "3", "4", "5", "6", "7", "8", "9"}
    THEN <<s[at + 1]>> \o DigitRun(s, at + 1)
    ELSE <<>>

\* C11: called on a digit, NextToken returns an INT token whose literal is
\* the maximal run of digits from the cursor on, and leaves the cursor on the
\* byte after the run.
C11_Digits ==
    \A i \in DOMAIN emitted :
        OnInput(i) /\ DigitRun(input, emitted[i].at) # <<>>
        => LET run == DigitRun(input, emitted[i].at)
           IN  /\ emitted[i].tok = Token(INT, run)
               /\ CursorAfter(i) = emitted[i].at + Len(run)

(***************************************************************************)
(* ast/ast.go: the nodes.  Nil is the nil interface value, NilPtr(T) a nil *)
(* pointer of type *T (which, stored in an interface, is not Nil).  A      *)
(* slice is the record [isNil, elems].                                     *)
(***************************************************************************)
Nil == [kind |-> "nil"]
NilPtr(T) == [kind |-> T, nilptr |-> TRUE]
IsNilPtr(n) == "nilptr" \in DOMAIN n

NilSlice == [isNil |-> TRUE, elems |-> <<>>]
MkSlice(s) == [isNil |-> FALSE, elems |-> s]

Identifier(tok, value) ==
    [kind |-> "Identifier", Token |-> tok, Value |-> value]
IntegerLiteral(tok, value) ==
    [kind |-> "IntegerLiteral", Token |-> tok, Value |-> value]
Boolean(tok, value) ==
    [kind |-> "Boolean", Token |-> tok, Value |-> value]
StringLiteral(tok, value) ==
    [kind |-> "StringLiteral", Token |-> tok, Value |-> value]
PrefixExpression(tok, operator, right) ==
    [kind |-> "PrefixExpression", Token |-> tok, Operator |-> operator,
     Right |-> right]
InfixExpression(tok, left, operator, right) ==
    [kind |-> "InfixExpression", Token |-> tok, Left |-> left,
     Operator |-> operator, Right |-> right]
LetStatement(tok, name, value) ==
    [kind |-> "LetStatement", Token |-> tok, Name |-> name, Value |-> value]
ReturnStatement(tok, value) ==
    [kind |-> "ReturnStatement", Token |-> tok, ReturnValue |-> value]
ExpressionStatement(tok, expression) ==
    [kind |-> "ExpressionStatement", Token |-> tok,
     Expression |-> expression]
BlockStatement(tok, statements) ==
    [kind |-> "BlockStatement", Token |-> tok, Statements |-> statements]
IfExpression(tok, condition, consequence, alternative) ==
    [kind |-> "IfExpression", Token |-> tok, Condition |-> condition,
     Consequence |-> consequence, Alternative |-> alternative]
FunctionLiteral(tok, parameters, body) ==
    [kind |-> "FunctionLiteral", Token |-> tok, Parameters |-> parameters,
     Body |-> body]
CallExpression(tok, function, arguments) ==
    [kind |-> "CallExpression", Token |-> tok, Function |-> function,
     Arguments |-> arguments]
ArrayLiteral(tok, elements) ==
    [kind |-> "ArrayLiteral", Token |-> tok, Elements |-> elements]
IndexExpression(tok, left, index) ==
    [kind |-> "IndexExpression", Token |-> tok, Left |-> left,
     Index |-> index]
\* Pairs is a Go map keyed by the key node's identity.  It is kept as the
\* sequence of its entries; the position of an entry stands for the identity
\* of its key and carries no order the map would have.
HashLiteral(tok, pairs) ==
    [kind |-> "HashLiteral", Token |-> tok, Pairs |-> pairs]

\* hash.Pairs[key] = value: every parsed key is a fresh pointer, so only the
\* nil key can already be present
MapStore(pairs, key, value) ==
    IF key = Nil /\ \E i \in DOMAIN pairs : pairs[i].key = Nil
    THEN [i \in DOMAIN pairs |->
            IF pairs[i].key = Nil THEN [key |-> Nil, value |-> value]
            ELSE pairs[i]]
    ELSE Append(pairs, [key |-> key, value |-> value])

(***************************************************************************)
(* ast/ast.go: the String methods.  A call returns a string or panics on   *)
(* a nil pointer or a nil interface value; a range over a map may take the *)
(* entries in any order, so String(n) is the set of the outcomes a call    *)
(* can have.                                                               *)
(***************************************************************************)
\* the one outcome: the string s
Lit(s) == {[panic |-> FALSE, out |-> s]}

\* the one outcome: a nil pointer dereference
NilDereference == {[panic |-> TRUE, out |-> <<>>]}

\* out.WriteString(a); out.WriteString(b)
Cat(A, B) ==
    { IF a.panic \/ b.panic THEN [panic |-> TRUE, out |-> <<>>]
      ELSE [panic |-> FALSE, out |-> a.out \o b.out] : a \in A, b \in B }

\* strings.Join(parts, sep)
RECURSIVE Join(_, _)
Join(parts, sep) ==
    IF parts = <<>> THEN Lit(<<>>)
    ELSE IF Len(parts) = 1 THEN parts[1]
    ELSE Cat(Cat(parts[1], Lit(sep)), Join(Tail(parts), sep))

\* the orders in which a range over a map of n entries can yield them
RangeOrders(n) == Permutations(1..n)

RECURSIVE String(_)

\* the String of each element of a list of nodes
Strings(nodes) == [i \in DOMAIN nodes |-> String(nodes[i])]

\* key.String() + ":" + value.String(), for each entry of hl.Pairs
PairStrings(pairs) ==
    [i \in DOMAIN pairs |->
        Cat(Cat(String(pairs[i].key), Lit(<<":">>)), String(pairs[i].value))]

\* Program.String and BlockStatement.String: the statements one after another
StatementsString(statements) == Join(Strings(statements), <<>>)

\* mutant: the arguments are joined by a comma alone
CallExpressionString_NoSpace(function, args) ==
    Cat(Cat(Cat(function, Lit(<<"(">>)), Join(args, <<",">>)), Lit(<<")">>))

\* CallExpression.String, given the strings of the function and the arguments
CallExpressionString(function, args) ==
    Cat(Cat(Cat(function, Lit(<<"(">>)), Join(args, <<",", " ">>)),
        Lit(<<")">>))

\* HashLiteral.String, given the entries' strings in the order of the range
HashLiteralString(pairs) == Cat(Lit(<<"{">>), Join(pairs, <<",", " ">>))

String(n) ==
    IF n = Nil \/ IsNilPtr(n) THEN NilDereference
    ELSE CASE n.kind = "Program" -> StatementsString(n.Statements)
           [] n.kind = "LetStatement" ->
                Cat(Cat(Cat(Cat(Lit(n.Token.Literal \o <<" ">>),
                                String(n.Name)),
                            Lit(<<" ", "=", " ">>)),
                        IF n.Value # Nil THEN String(n.Value) ELSE Lit(<<>>)),
                    Lit(<<";">>))
           [] n.kind = "ReturnStatement" ->
                Cat(Cat(Lit(n.Token.Literal \o <<" ">>),
                        IF n.ReturnValue # Nil THEN String(n.ReturnValue)
                        ELSE Lit(<<>>)),
                    Lit(<<";">>))
           [] n.kind = "ExpressionStatement" ->
                IF n.Expression # Nil THEN String(n.Expression) ELSE Lit(<<>>)
           [] n.kind = "Identifier" -> Lit(n.Value)
           [] n.kind = "IntegerLiteral" -> Lit(n.Token.Literal)
           [] n.kind = "Boolean" -> Lit(n.Token.Literal)
           [] n.kind = "StringLiteral" -> Lit(n.Token.Literal)
           [] n.kind = "PrefixExpression" ->
                Cat(Cat(Lit(<<"(">> \o n.Operator), String(n.Right)),
                    Lit(<<")">>))
           [] n.kind = "InfixExpression" ->
                Cat(Cat(Cat(Cat(Lit(<<"(">>), String(n.Left)),
                            Lit(<<" ">> \o n.Operator \o <<" ">>)),
                        String(n.Right)),
                    Lit(<<")">>))
           [] n.kind = "IfExpression" ->
                Cat(Cat(Cat(Cat(Lit(<<"i", "f">>), String(n.Condition)),
                            Lit(<<" ">>)),
                        String(n.Consequence)),
                    IF ~IsNilPtr(n.Alternative)
                    THEN Cat(Lit(<<"e", "l", "s", "e">>),
                             String(n.Alternative))
                    ELSE Lit(<<>>))
           [] n.kind = "BlockStatement" -> StatementsString(n.Statements)
           [] n.kind = "FunctionLiteral" ->
                Cat(Cat(Cat(Cat(Lit(n.Token.Literal), Lit(<<"(">>)),
                            Join(Strings(n.Parameters.elems), <<",", " ">>)),
                        Lit(<<")", " ">>)),
                    String(n.Body))
           [] n.kind = "CallExpression" ->
                CallExpressionString(String(n.Function),
                                     Strings(n.Arguments.elems))
           [] n.kind = "ArrayLiteral" ->
                Cat(Cat(Lit(<<"[">>),
                        Join(Strings(n.Elements.elems), <<",", " ">>)),
                    Lit(<<"]">>))
           [] n.kind = "IndexExpression" ->
                Cat(Cat(Cat(Cat(Lit(<<"(">>), String(n.Left)),
                            Lit(<<"[">>)),
                        String(n.Index)),
                    Lit(<<"]", ")">>))
           [] n.kind = "HashLiteral" ->
                UNION { HashLiteralString(
                            [i \in DOMAIN n.Pairs |->
                                PairStrings(n.Pairs)[order[i]]]) :
                        order \in RangeOrders(Len(n.Pairs)) }

(***************************************************************************)
(* parser/parser.go: constants and tables                                  *)
(***************************************************************************)
LOWEST == 1
EQUALS == 2
LESSGREATER == 3
SUM == 4
PRODUCT == 5
PREFIX == 6
CALL == 7
INDEX == 8

precedences ==
    EQ :> EQUALS @@ NOT_EQ :> EQUALS @@ LT :> LESSGREATER @@
    GT :> LESSGREATER @@ PLUS :> SUM @@ MINUS :> SUM @@ SLASH :> PRODUCT @@
    ASTERISK :> PRODUCT @@ LPAREN :> CALL @@ LBRACKET :> INDEX

\* the registrations of New
prefixParseFns ==
    IDENT :> "parseIdentifier" @@ INT :> "parseIntegerLiteral" @@
    BANG :> "parsePrefixExpression" @@ MINUS :> "parsePrefixExpression" @@
    TRUE_ :> "parseBoolean" @@ FALSE_ :> "parseBoolean" @@
    LPAREN :> "parseGroupedExpression" @@ IF_ :> "parseIfExpression" @@
    FUNCTION :> "parseFunctionLiteral" @@ STRING_ :> "parseStringLiteral" @@
    LBRACKET :> "parseArrayLiteral" @@ LBRACE :> "parseHashLiteral"

infixParseFns ==
    PLUS :> "parseInfixExpression" @@ MINUS :> "parseInfixExpression" @@
    SLASH :> "parseInfixExpression" @@ ASTERISK :> "parseInfixExpression" @@
    EQ :> "parseInfixExpression" @@ NOT_EQ :> "parseInfixExpression" @@
    LT :> "parseInfixExpression" @@ GT :> "parseInfixExpression" @@
    LPAREN :> "parseCallExpression" @@ LBRACKET :> "parseIndexExpression"

(***************************************************************************)
(* strconv.ParseInt(s, 0, 64) on the literals an INT token carries (runs   *)
(* of decimal digits): base 0 reads a leading "0" as the octal prefix.     *)
(***************************************************************************)
isDigitByte(c) ==
    ByteCode["0"] <= ByteCode[c] /\ ByteCode[c] <= ByteCode["9"]

DigitValue(c) == ByteCode[c] - ByteCode["0"]

RECURSIVE StripZeros(_)
StripZeros(s) ==
    IF s # <<>> /\ s[1] = "0" THEN StripZeros(Tail(s)) ELSE s

\* s > t for two digit strings without leading zeros
RECURSIVE DigitsGreater(_, _)
DigitsGreater(s, t) ==
    IF Len(s) # Len(t) THEN Len(s) > Len(t)
    ELSE IF s = <<>> THEN FALSE
    ELSE IF s[1] # t[1] THEN DigitValue(s[1]) > DigitValue(t[1])
    ELSE DigitsGreater(Tail(s), Tail(t))

RECURSIVE DigitsValue(_, _)
DigitsValue(s, base) ==
    IF s = <<>> THEN 0
    ELSE DigitsValue(SubSeq(s, 1, Len(s) - 1), base) * base
            + DigitValue(s[Len(s)])

\* 1<<63 - 1 written in base 10 and in base 8
MaxInt64Dec == <<"9", "2", "2", "3", "3", "7", "2", "0", "3", "6", "8", "5",
                 "4", "7", "7", "5", "8", "0", "7">>
MaxInt64Oct == <<"7", "7", "7", "7", "7", "7", "7", "7", "7", "7", "7", "7",
                 "7", "7", "7", "7", "7", "7", "7", "7", "7">>

ParseInt(s) ==
    LET err == [ok |-> FALSE, value |-> 0]
        base == IF Len(s) > 1 /\ s[1] = "0" THEN 8 ELSE 10
        body == IF base = 8 THEN Tail(s) ELSE s
        digits == StripZeros(body)
    IN  IF s = <<>> \/ \E i \in DOMAIN s : ~isDigitByte(s[i]) THEN err
        ELSE IF \E i \in DOMAIN body : DigitValue(body[i]) >= base THEN err
        ELSE IF DigitsGreater(digits, IF base = 8 THEN MaxInt64Oct
                                      ELSE MaxInt64Dec) THEN err
        ELSE [ok |-> TRUE, value |-> DigitsValue(digits, base)]

\* the text of a string, for the messages fmt.Sprintf builds
RECURSIVE Str(_)
Str(cs) == IF cs = <<>> THEN "" ELSE cs[1] \o Str(Tail(cs))

(***************************************************************************)
(* parser/parser.go: helper methods.  A Parser value is the record         *)
(*   [curToken, peekToken, errors, lexPos].                                *)
(***************************************************************************)
\* p.l.NextToken() for a lexer that yields `stream` and then EOF forever
StreamToken(i) ==
    IF i < Len(stream) THEN stream[i + 1] ELSE Token(EOF, <<>>)

\* mutant: one token of the lexer is dropped on every move
nextToken_SkipOne(p) ==
    [p EXCEPT !.curToken = p.peekToken,
              !.peekToken = StreamToken(p.lexPos + 1),
              !.lexPos = p.lexPos + 2]

nextToken(p) ==
    [p EXCEPT !.curToken = p.peekToken,
              !.peekToken = StreamToken(p.lexPos),
              !.lexPos = p.lexPos + 1]

curTokenIs(p, t) == p.curToken.Type = t

peekTokenIs(p, t) == p.peekToken.Type = t

\* mutant: the message replaces the list
peekError_Overwrite(p, t) ==
    [p EXCEPT !.errors =
        <<"expected next token to be " \o t \o ", got "
             \o p.peekToken.Type \o " instead">>]

peekError(p, t) ==
    [p EXCEPT !.errors =
        Append(@, "expected next token to be " \o t \o ", got "
                     \o p.peekToken.Type \o " instead")]

\* mutant: the error is not recorded
noPrefixParseFnError_Silent(p, t) == p

noPrefixParseFnError(p, t) ==
    [p EXCEPT !.errors =
        Append(@, "no prefix parse functions for " \o t \o " found")]

\* mutant: the parser moves on also when the token is not the expected one
expectPeek_AlwaysAdvance(p, t) ==
    IF peekTokenIs(p, t)
    THEN [p |-> nextToken(p), ok |-> TRUE]
    ELSE [p |-> nextToken(peekError(p, t)), ok |-> FALSE]

expectPeek(p, t) ==
    IF peekTokenIs(p, t)
    THEN [p |-> nextToken(p), ok |-> TRUE]
    ELSE [p |-> peekError(p, t), ok |-> FALSE]

peekPrecedence(p) ==
    IF p.peekToken.Type \in DOMAIN precedences
    THEN precedences[p.peekToken.Type] ELSE LOWEST

curPrecedence(p) ==
    IF p.curToken.Type \in DOMAIN precedences
    THEN precedences[p.curToken.Type] ELSE LOWEST

\* parser.New: the two nextToken calls on the freshly built Parser
New ==
    nextToken(nextToken([curToken |-> ZeroToken, peekToken |-> ZeroToken,
                         errors |-> <<>>, lexPos |-> 0]))

(***************************************************************************)
(* parser/parser.go: the prefix parse functions that call no other parse   *)
(* function.  Each returns the parser after the call and the node.         *)
(***************************************************************************)
parseIdentifier(p) ==
    [p |-> p, node |-> Identifier(p.curToken, p.curToken.Literal)]

parseIntegerLiteral(p) ==
    LET r == ParseInt(p.curToken.Literal)
    IN  IF ~r.ok
        THEN [p |-> [p EXCEPT !.errors =
                       Append(@, "could not parse \""
                                    \o Str(p.curToken.Literal)
                                    \o "\" as integer")],
              node |-> Nil]
        ELSE [p |-> p, node |-> IntegerLiteral(p.curToken, r.value)]

parseBoolean(p) ==
    [p |-> p, node |-> Boolean(p.curToken, curTokenIs(p, TRUE_))]

parseStringLiteral(p) ==
    [p |-> p, node |-> StringLiteral(p.curToken, p.curToken.Literal)]

\* the loop of parseFunctionParameters: for p.peekTokenIs(token.COMMA) {...}
RECURSIVE parseFunctionParametersLoop(_, _)
parseFunctionParametersLoop(p, identifiers) ==
    IF peekTokenIs(p, COMMA)
    THEN LET p2 == nextToken(nextToken(p))
         IN  parseFunctionParametersLoop(p2,
                Append(identifiers,
                       Identifier(p2.curToken, p2.curToken.Literal)))
    ELSE [p |-> p, identifiers |-> identifiers]

parseFunctionParameters(p) ==
    IF peekTokenIs(p, RPAREN)
    THEN [p |-> nextToken(p), identifiers |-> MkSlice(<<>>)]
    ELSE LET p1 == nextToken(p)
             r == parseFunctionParametersLoop(p1,
                     <<Identifier(p1.curToken, p1.curToken.Literal)>>)
             e == expectPeek(r.p, RPAREN)
         IN  IF ~e.ok THEN [p |-> e.p, identifiers |-> NilSlice]
             ELSE [p |-> e.p, identifiers |-> MkSlice(r.identifiers)]

(***************************************************************************)
(* The parser as a state machine.  The parse functions that call one       *)
(* another run on an explicit call stack; a frame holds the function, the  *)
(* point it has reached and its locals.  One step runs the top function    *)
(* from that point up to its next call of a parse function or its return.  *)
(***************************************************************************)
Frame(fn) ==
    [fn   |-> fn,       \* the function
     pc   |-> "entry",  \* the point reached
     node |-> Nil,      \* the node being built (stmt, expression, leftExp, ...)
     left |-> Nil,      \* the argument of an infix parse function
     key  |-> Nil,      \* parseHashLiteral's key
     list |-> <<>>,     \* parseExpressionList's list
     prec |-> 0,        \* parseExpression's precedence
     end  |-> "",       \* parseExpressionList's end
     mark |-> 0]        \* history: lexPos when the current loop iteration began

P == [curToken |-> curToken, peekToken |-> peekToken, errors |-> errors,
      lexPos |-> lexPos]

Top == stack[Len(stack)]

At(fn, pc) == stack # <<>> /\ Top.fn = fn /\ Top.pc = pc

SetParser(p) ==
    /\ curToken' = p.curToken
    /\ peekToken' = p.peekToken
    /\ errors' = p.errors
    /\ lexPos' = p.lexPos

\* the top function returns value
Return(p, value) ==
    /\ SetParser(p)
    /\ stack' = SubSeq(stack, 1, Len(stack) - 1)
    /\ ret' = value

\* the top function, its frame now self, calls the function of frame callee
Call(p, self, callee) ==
    /\ SetParser(p)
    /\ stack' = SubSeq(stack, 1, Len(stack) - 1) \o <<self, callee>>
    /\ ret' = Nil

ExprFrame(precedence) == [Frame("parseExpression") EXCEPT !.prec = precedence]

\* ---- ParseProgram ----
\* the head of the loop: for !p.curTokenIs(token.EOF)
ParseProgramLoop(p, self, prog) ==
    IF ~curTokenIs(p, EOF)
    THEN Call(p, [self EXCEPT !.pc = "afterStatement", !.mark = p.lexPos],
              Frame("parseStatement"))
    ELSE Return(p, prog)

ParseProgram_entry ==
    /\ At("ParseProgram", "entry")
    /\ program' = [kind |-> "Program", Statements |-> <<>>]
    /\ ParseProgramLoop(P, Top, program')
    /\ UNCHANGED <<lexVars, printVars, stream>>

\* mutant: the loop body does not advance
ParseProgramAppend_NoAdvance(p, prog, stmt) ==
    [p    |-> p,
     prog |-> IF stmt # Nil
              THEN [prog EXCEPT !.Statements = Append(@, stmt)]
              ELSE prog]

\* if stmt != nil { append }; p.nextToken()
ParseProgramAppend(p, prog, stmt) ==
    [p    |-> nextToken(p),
     prog |-> IF stmt # Nil
              THEN [prog EXCEPT !.Statements = Append(@, stmt)]
              ELSE prog]

ParseProgram_afterStatement ==
    /\ At("ParseProgram", "afterStatement")
    /\ LET r == ParseProgramAppend(P, program, ret)
       IN  /\ program' = r.prog
           /\ ParseProgramLoop(r.p, Top, r.prog)
    /\ UNCHANGED <<lexVars, printVars, stream>>

\* ---- parseStatement ----
parseStatement_entry ==
    /\ At("parseStatement", "entry")
    /\ Call(P, [Top EXCEPT !.pc = "afterCall"],
            CASE curToken.Type = LET_ -> Frame("parseLetStatement")
              [] curToken.Type = RETURN -> Frame("parseReturnStatement")
              [] OTHER -> Frame("parseExpressionStatement"))
    /\ UNCHANGED <<lexVars, printVars, stream, program>>

\* return p.parseXStatement(): the *ast.XStatement becomes an ast.Statement,
\* so a nil *ast.LetStatement is returned as a non-nil interface value
parseStatement_afterCall ==
    /\ At("parseStatement", "afterCall")
    /\ Return(P, ret)
    /\ UNCHANGED <<lexVars, printVars, stream, program>>

\* ---- parseLetStatement ----
parseLetStatement_entry ==
    /\ At("parseLetStatement", "entry")
    /\ LET stmt == LetStatement(curToken, NilPtr("Identifier"), Nil)
           e1 == expectPeek(P, IDENT)
           named == [stmt EXCEPT !.Name = Identifier(e1.p.curToken,
                                                     e1.p.curToken.Literal)]
           e2 == expectPeek(e1.p, ASSIGN)
       IN  IF ~e1.ok THEN Return(e1.p, NilPtr("LetStatement"))
           ELSE IF ~e2.ok THEN Return(e2.p, NilPtr("LetStatement"))
           ELSE Call(nextToken(e2.p),
                     [Top EXCEPT !.pc = "afterValue", !.node = named],
                     ExprFrame(LOWEST))
    /\ UNCHANGED <<lexVars, printVars, stream, program>>

\* if p.peekTokenIs(token.SEMICOLON) { p.nextToken() }
SkipSemicolon(p) == IF peekTokenIs(p, SEMICOLON) THEN nextToken(p) ELSE p

parseLetStatement_afterValue ==
    /\ At("parseLetStatement", "afterValue")
    /\ Return(SkipSemicolon(P), [Top.node EXCEPT !.Value = ret])
    /\ UNCHANGED <<lexVars, printVars, stream, program>>

\* ---- parseReturnStatement ----
parseReturnStatement_entry ==
    /\ At("parseReturnStatement", "entry")
    /\ Call(nextToken(P),
            [Top EXCEPT !.pc = "afterValue",
                        !.node = ReturnStatement(curToken, Nil)],
            ExprFrame(LOWEST))
    /\ UNCHANGED <<lexVars, printVars, stream, program>>

parseReturnStatement_afterValue ==
    /\ At("parseReturnStatement", "afterValue")
    /\ Return(SkipSemicolon(P), [Top.node EXCEPT !.ReturnValue = ret])
    /\ UNCHANGED <<lexVars, printVars, stream, program>>

\* ---- parseExpressionStatement ----
parseExpressionStatement_entry ==
    /\ At("parseExpressionStatement", "entry")
    /\ Call(P,
            [Top EXCEPT !.pc = "afterExpression",
                        !.node = ExpressionStatement(curToken, Nil)],
            ExprFrame(LOWEST))
    /\ UNCHANGED <<lexVars, printVars, stream, program>>

parseExpressionStatement_afterExpression ==
    /\ At("parseExpressionStatement", "afterExpression")
    /\ Return(SkipSemicolon(P), [Top.node EXCEPT !.Expression = ret])
    /\ UNCHANGED <<lexVars, printVars, stream, program>>

\* ---- parseExpression ----
LeafPrefixFns == {"parseIdentifier", "parseIntegerLiteral", "parseBoolean",
                  "parseStringLiteral"}

CallLeafPrefix(fn, p) ==
    CASE fn = "parseIdentifier" -> parseIdentifier(p)
      [] fn = "parseIntegerLiteral" -> parseIntegerLiteral(p)
      [] fn = "parseBoolean" -> parseBoolean(p)
      [] fn = "parseStringLiteral" -> parseStringLiteral(p)

\* the condition of the loop of parseExpression
InfixLoopCondition(p, precedence) ==
    ~peekTokenIs(p, SEMICOLON) /\ precedence < peekPrecedence(p)

\* the loop of parseExpression, reached with leftExp
parseExpressionLoop(p, self, leftExp) ==
    IF InfixLoopCondition(p, self.prec)
    THEN IF p.peekToken.Type \notin DOMAIN infixParseFns
         THEN Return(p, leftExp)
         ELSE Call(nextToken(p),
                   [self EXCEPT !.pc = "afterInfix", !.node = leftExp],
                   [Frame(infixParseFns[p.peekToken.Type])
                        EXCEPT !.left = leftExp])
    ELSE Return(p, leftExp)

parseExpression_entry ==
    /\ At("parseExpression", "entry")
    /\ IF curToken.Type \notin DOMAIN prefixParseFns
       THEN Return(noPrefixParseFnError(P, curToken.Type), Nil)
       ELSE LET prefix == prefixParseFns[curToken.Type]
            IN  IF prefix \in LeafPrefixFns
                THEN LET r == CallLeafPrefix(prefix, P)
                     IN  parseExpressionLoop(r.p, Top, r.node)
                ELSE Call(P, [Top EXCEPT !.pc = "afterPrefix"],
                          Frame(prefix))
    /\ UNCHANGED <<lexVars, printVars, stream, program>>

parseExpression_afterPrefix ==
    /\ At("parseExpression", "afterPrefix")
    /\ parseExpressionLoop(P, Top, ret)
    /\ UNCHANGED <<lexVars, printVars, stream, program>>

parseExpression_afterInfix ==
    /\ At("parseExpression", "afterInfix")
    /\ parseExpressionLoop(P, Top, ret)
    /\ UNCHANGED <<lexVars, printVars, stream, program>>

\* ---- parsePrefixExpression ----
\* mutant: the operand is parsed at LOWEST
PrefixOperandPrecedence_Lowest == LOWEST

\* the precedence parsePrefixExpression parses its operand with
PrefixOperandPrecedence == PREFIX

parsePrefixExpression_entry ==
    /\ At("parsePrefixExpression", "entry")
    /\ Call(nextToken(P),
            [Top EXCEPT !.pc = "afterRight",
                        !.node = PrefixExpression(curToken, curToken.Literal,
                                                  Nil)],
            ExprFrame(PrefixOperandPrecedence))
    /\ UNCHANGED <<lexVars, printVars, stream, program>>

parsePrefixExpression_afterRight ==
    /\ At("parsePrefixExpression", "afterRight")
    /\ Return(P, [Top.node EXCEPT !.Right = ret])
    /\ UNCHANGED <<lexVars, printVars, stream, program>>

\* ---- parseInfixExpression ----
\* mutant: the right operand is parsed one level lower (right-associative)
RightOperandPrecedence_Lower(p) == curPrecedence(p) - 1

\* the precedence parseInfixExpression parses its right operand with
RightOperandPrecedence(p) == curPrecedence(p)

parseInfixExpression_entry ==
    /\ At("parseInfixExpression", "entry")
    /\ Call(nextToken(P),
            [Top EXCEPT !.pc = "afterRight",
                        !.node = InfixExpression(curToken, Top.left,
                                                 curToken.Literal, Nil)],
            ExprFrame(RightOperandPrecedence(P)))
    /\ UNCHANGED <<lexVars, printVars, stream, program>>

parseInfixExpression_afterRight ==
    /\ At("parseInfixExpression", "afterRight")
    /\ Return(P, [Top.node EXCEPT !.Right = ret])
    /\ UNCHANGED <<lexVars, printVars, stream, program>>

\* ---- parseGroupedExpression ----
parseGroupedExpression_entry ==
    /\ At("parseGroupedExpression", "entry")
    /\ Call(nextToken(P), [Top EXCEPT !.pc = "afterExpression"],
            ExprFrame(LOWEST))
    /\ UNCHANGED <<lexVars, printVars, stream, program>>

parseGroupedExpression_afterExpression ==
    /\ At("parseGroupedExpression", "afterExpression")
    /\ LET e == expectPeek(P, RPAREN)
       IN  IF ~e.ok THEN Return(e.p, Nil) ELSE Return(e.p, ret)
    /\ UNCHANGED <<lexVars, printVars, stream, program>>

\* ---- parseIfExpression ----
parseIfExpression_entry ==
    /\ At("parseIfExpression", "entry")
    /\ LET expression == IfExpression(curToken, Nil, NilPtr("BlockStatement"),
                                      NilPtr("BlockStatement"))
           e == expectPeek(P, LPAREN)
       IN  IF ~e.ok THEN Return(e.p, Nil)
           ELSE Call(nextToken(e.p),
                     [Top EXCEPT !.pc = "afterCondition",
                                 !.node = expression],
                     ExprFrame(LOWEST))
    /\ UNCHANGED <<lexVars, printVars, stream, program>>

parseIfExpression_afterCondition ==
    /\ At("parseIfExpression", "afterCondition")
    /\ LET expression == [Top.node EXCEPT !.Condition = ret]
           e1 == expectPeek(P, RPAREN)
           e2 == expectPeek(e1.p, LBRACE)
       IN  IF ~e1.ok THEN Return(e1.p, Nil)
           ELSE IF ~e2.ok THEN Return(e2.p, Nil)
           ELSE Call(e2.p,
                     [Top EXCEPT !.pc = "afterConsequence",
                                 !.node = expression],
                     Frame("parseBlockStatement"))
    /\ UNCHANGED <<lexVars, printVars, stream, program>>

parseIfExpression_afterConsequence ==
    /\ At("parseIfExpression", "afterConsequence")
    /\ LET expression == [Top.node EXCEPT !.Consequence = ret]
       IN  IF peekTokenIs(P, ELSE_)
           THEN LET e == expectPeek(nextToken(P), LBRACE)
                IN  IF ~e.ok THEN Return(e.p, Nil)
                    ELSE Call(e.p,
                              [Top EXCEPT !.pc = "afterAlternative",
                                          !.node = expression],
                              Frame("parseBlockStatement"))
           ELSE Return(P, expression)
    /\ UNCHANGED <<lexVars, printVars, stream, program>>

parseIfExpression_afterAlternative ==
    /\ At("parseIfExpression", "afterAlternative")
    /\ Return(P, [Top.node EXCEPT !.Alternative = ret])
    /\ UNCHANGED <<lexVars, printVars, stream, program>>

\* ---- parseBlockStatement ----
\* the head of the loop: for !curTokenIs(RBRACE) && !curTokenIs(EOF)
parseBlockStatementLoop(p, self, block) ==
    IF ~curTokenIs(p, RBRACE) /\ ~curTokenIs(p, EOF)
    THEN Call(p, [self EXCEPT !.pc = "afterStatement", !.node = block,
                              !.mark = p.lexPos],
              Frame("parseStatement"))
    ELSE Return(p, block)

parseBlockStatement_entry ==
    /\ At("parseBlockStatement", "entry")
    /\ parseBlockStatementLoop(nextToken(P), Top,
                               BlockStatement(curToken, <<>>))
    /\ UNCHANGED <<lexVars, printVars, stream, program>>

\* if stmt != nil { append }; p.nextToken()
parseBlockStatementAppend(p, block, stmt) ==
    [p     |-> nextToken(p),
     block |-> IF stmt # Nil
               THEN [block EXCEPT !.Statements = Append(@, stmt)]
               ELSE block]

parseBlockStatement_afterStatement ==
    /\ At("parseBlockStatement", "afterStatement")
    /\ LET r == parseBlockStatementAppend(P, Top.node, ret)
       IN  parseBlockStatementLoop(r.p, Top, r.block)
    /\ UNCHANGED <<lexVars, printVars, stream, program>>

\* ---- parseFunctionLiteral ----
parseFunctionLiteral_entry ==
    /\ At("parseFunctionLiteral", "entry")
    /\ LET lit == FunctionLiteral(curToken, NilSlice,
                                  NilPtr("BlockStatement"))
           e1 == expectPeek(P, LPAREN)
           r == parseFunctionParameters(e1.p)
           e2 == expectPeek(r.p, LBRACE)
       IN  IF ~e1.ok THEN Return(e1.p, Nil)
           ELSE IF ~e2.ok THEN Return(e2.p, Nil)
           ELSE Call(e2.p,
                     [Top EXCEPT !.pc = "afterBody",
                                 !.node = [lit EXCEPT !.Parameters =
                                                         r.identifiers]],
                     Frame("parseBlockStatement"))
    /\ UNCHANGED <<lexVars, printVars, stream, program>>

parseFunctionLiteral_afterBody ==
    /\ At("parseFunctionLiteral", "afterBody")
    /\ Return(P, [Top.node EXCEPT !.Body = ret])
    /\ UNCHANGED <<lexVars, printVars, stream, program>>

\* ---- parseCallExpression ----
ListFrame(end) == [Frame("parseExpressionList") EXCEPT !.end = end]

parseCallExpression_entry ==
    /\ At("parseCallExpression", "entry")
    /\ Call(P,
            [Top EXCEPT !.pc = "afterArguments",
                        !.node = CallExpression(curToken, Top.left,
                                                NilSlice)],
            ListFrame(RPAREN))
    /\ UNCHANGED <<lexVars, printVars, stream, program>>

parseCallExpression_afterArguments ==
    /\ At("parseCallExpression", "afterArguments")
    /\ Return(P, [Top.node EXCEPT !.Arguments = ret])
    /\ UNCHANGED <<lexVars, printVars, stream, program>>

\* ---- parseArrayLiteral ----
parseArrayLiteral_entry ==
    /\ At("parseArrayLiteral", "entry")
    /\ Call(P,
            [Top EXCEPT !.pc = "afterElements",
                        !.node = ArrayLiteral(curToken, NilSlice)],
            ListFrame(RBRACKET))
    /\ UNCHANGED <<lexVars, printVars, stream, program>>

parseArrayLiteral_afterElements ==
    /\ At("parseArrayLiteral", "afterElements")
    /\ Return(P, [Top.node EXCEPT !.Elements = ret])
    /\ UNCHANGED <<lexVars, printVars, stream, program>>

\* ---- parseExpressionList ----
parseExpressionList_entry ==
    /\ At("parseExpressionList", "entry")
    /\ IF peekTokenIs(P, Top.end)
       THEN Return(nextToken(P), MkSlice(<<>>))
       ELSE Call(nextToken(P), [Top EXCEPT !.pc = "afterElement"],
                 ExprFrame(LOWEST))
    /\ UNCHANGED <<lexVars, printVars, stream, program>>

\* mutant: each further element is put in front of the list
parseExpressionList_afterElement_Prepend ==
    /\ At("parseExpressionList", "afterElement")
    /\ LET list == <<ret>> \o Top.list
       IN  IF peekTokenIs(P, COMMA)
           THEN Call(nextToken(nextToken(P)),
                     [Top EXCEPT !.pc = "afterElement", !.list = list],
                     ExprFrame(LOWEST))
           ELSE LET e == expectPeek(P, Top.end)
                IN  IF ~e.ok THEN Return(e.p, NilSlice)
                    ELSE Return(e.p, MkSlice(list))
    /\ UNCHANGED <<lexVars, printVars, stream, program>>

parseExpressionList_afterElement ==
    /\ At("parseExpressionList", "afterElement")
    /\ LET list == Append(Top.list, ret)
       IN  IF peekTokenIs(P, COMMA)
           THEN Call(nextToken(nextToken(P)),
                     [Top EXCEPT !.pc = "afterElement", !.list = list],
                     ExprFrame(LOWEST))
           ELSE LET e == expectPeek(P, Top.end)
                IN  IF ~e.ok THEN Return(e.p, NilSlice)
                    ELSE Return(e.p, MkSlice(list))
    /\ UNCHANGED <<lexVars, printVars, stream, program>>

\* ---- parseIndexExpression ----
parseIndexExpression_entry ==
    /\ At("parseIndexExpression", "entry")
    /\ Call(nextToken(P),
            [Top EXCEPT !.pc = "afterIndex",
                        !.node = IndexExpression(curToken, Top.left, Nil)],
            ExprFrame(LOWEST))
    /\ UNCHANGED <<lexVars, printVars, stream, program>>

parseIndexExpression_afterIndex ==
    /\ At("parseIndexExpression", "afterIndex")
    /\ LET e == expectPeek(P, RBRACKET)
       IN  IF ~e.ok THEN Return(e.p, Nil)
           ELSE Return(e.p, [Top.node EXCEPT !.Index = ret])
    /\ UNCHANGED <<lexVars, printVars, stream, program>>

\* ---- parseHashLiteral ----
\* the head of the loop: for !p.peekTokenIs(token.RBRACE), and what follows it
parseHashLiteralLoop(p, self, hash) ==
    IF ~peekTokenIs(p, RBRACE)
    THEN Call(nextToken(p),
              [self EXCEPT !.pc = "afterKey", !.node = hash,
                           !.mark = p.lexPos],
              ExprFrame(LOWEST))
    ELSE LET e == expectPeek(p, RBRACE)
         IN  IF ~e.ok THEN Return(e.p, Nil) ELSE Return(e.p, hash)

parseHashLiteral_entry ==
    /\ At("parseHashLiteral", "entry")
    /\ parseHashLiteralLoop(P, Top, HashLiteral(curToken, <<>>))
    /\ UNCHANGED <<lexVars, printVars, stream, program>>

parseHashLiteral_afterKey ==
    /\ At("parseHashLiteral", "afterKey")
    /\ LET e == expectPeek(P, COLON)
       IN  IF ~e.ok THEN Return(e.p, Nil)
           ELSE Call(nextToken(e.p),
                     [Top EXCEPT !.pc = "afterValue", !.key = ret],
                     ExprFrame(LOWEST))
    /\ UNCHANGED <<lexVars, printVars, stream, program>>

parseHashLiteral_afterValue ==
    /\ At("parseHashLiteral", "afterValue")
    /\ LET hash == [Top.node EXCEPT !.Pairs = MapStore(@, Top.key, ret)]
           e == expectPeek(P, COMMA)
       IN  IF ~peekTokenIs(P, RBRACE) /\ ~e.ok THEN Return(e.p, Nil)
           ELSE parseHashLiteralLoop(IF peekTokenIs(P, RBRACE) THEN P
                                     ELSE e.p, Top, hash)
    /\ UNCHANGED <<lexVars, printVars, stream, program>>

(***************************************************************************)
(* Token streams the parser is run on                                      *)
(***************************************************************************)
MaxTokens == 3         \* longest stream drawn exhaustively from an alphabet

\* the literal of the tokens whose type fixes it
FixedLiteral ==
    ASSIGN :> <<"=">> @@ PLUS :> <<"+">> @@ MINUS :> <<"-">> @@
    BANG :> <<"!">> @@ ASTERISK :> <<"*">> @@ SLASH :> <<"/">> @@
    LT :> <<"<">> @@ GT :> <<">">> @@ EQ :> <<"=", "=">> @@
    NOT_EQ :> <<"!", "=">> @@ COMMA :> <<",">> @@ SEMICOLON :> <<";">> @@
    COLON :> <<":">> @@ LPAREN :> <<"(">> @@ RPAREN :> <<")">> @@
    LBRACE :> <<"{">> @@ RBRACE :> <<"}">> @@ LBRACKET :> <<"[">> @@
    RBRACKET :> <<"]">> @@ FUNCTION :> <<"f", "n">> @@
    LET_ :> <<"l", "e", "t">> @@ TRUE_ :> <<"t", "r", "u", "e">> @@
    FALSE_ :> <<"f", "a", "l", "s", "e">> @@ IF_ :> <<"i", "f">> @@
    ELSE_ :> <<"e", "l", "s", "e">> @@
    RETURN :> <<"r", "e", "t", "u", "r", "n">>

T(type) == Token(type, FixedLiteral[type])
Id(name) == Token(IDENT, name)
Num(digits) == Token(INT, digits)
StrTok(s) == Token(STRING_, s)

BinaryOperators == {PLUS, MINUS, ASTERISK, SLASH, EQ, NOT_EQ, LT, GT}
PrefixOperators == {BANG, MINUS}

\* a op1 b op2 c
InfixTriples ==
    { <<Id(<<"a">>), T(op1), Id(<<"b">>), T(op2), Id(<<"c">>)>> :
        op1 \in BinaryOperators, op2 \in BinaryOperators }

\* 1 + 2 * 3
ScenarioSum ==
    <<Num(<<"1">>), T(PLUS), Num(<<"2">>), T(ASTERISK), Num(<<"3">>)>>

\* pre a op b,  pre a [ b ],  pre a ( b )
PrefixStreams ==
    { <<T(pre), Id(<<"a">>), T(op), Id(<<"b">>)>> :
        pre \in PrefixOperators, op \in BinaryOperators }
    \cup { <<T(pre), Id(<<"a">>), T(LBRACKET), Id(<<"b">>), T(RBRACKET)>> :
             pre \in PrefixOperators }
    \cup { <<T(pre), Id(<<"a">>), T(LPAREN), Id(<<"b">>), T(RPAREN)>> :
             pre \in PrefixOperators }

\* let x = 1 + 2 * 3;
ScenarioLet ==
    <<T(LET_), Id(<<"x">>), T(ASSIGN), Num(<<"1">>), T(PLUS), Num(<<"2">>),
      T(ASTERISK), Num(<<"3">>), T(SEMICOLON)>>

\* -a * b; !(true == false)
ScenarioUnary ==
    <<T(MINUS), Id(<<"a">>), T(ASTERISK), Id(<<"b">>), T(SEMICOLON),
      T(BANG), T(LPAREN), T(TRUE_), T(EQ), T(FALSE_), T(RPAREN)>>

\* if (x < y) { x } else { y }
ScenarioIf ==
    <<T(IF_), T(LPAREN), Id(<<"x">>), T(LT), Id(<<"y">>), T(RPAREN),
      T(LBRACE), Id(<<"x">>), T(RBRACE), T(ELSE_), T(LBRACE), Id(<<"y">>),
      T(RBRACE)>>

\* let add = fn(a, b) { a + b }; add(1, 2 * 3);
ScenarioFunction ==
    <<T(LET_), Id(<<"a", "d", "d">>), T(ASSIGN), T(FUNCTION), T(LPAREN),
      Id(<<"a">>), T(COMMA), Id(<<"b">>), T(RPAREN), T(LBRACE), Id(<<"a">>),
      T(PLUS), Id(<<"b">>), T(RBRACE), T(SEMICOLON), Id(<<"a", "d", "d">>),
      T(LPAREN), Num(<<"1">>), T(COMMA), Num(<<"2">>), T(ASTERISK),
      Num(<<"3">>), T(RPAREN), T(SEMICOLON)>>

\* [1, 2, 3][1 + 1]
ScenarioArray ==
    <<T(LBRACKET), Num(<<"1">>), T(COMMA), Num(<<"2">>), T(COMMA),
      Num(<<"3">>), T(RBRACKET), T(LBRACKET), Num(<<"1">>), T(PLUS),
      Num(<<"1">>), T(RBRACKET)>>

\* {"one": 1, "two": 2, "three": 3}
ScenarioHash ==
    <<T(LBRACE), StrTok(<<"o", "n", "e">>), T(COLON), Num(<<"1">>), T(COMMA),
      StrTok(<<"t", "w", "o">>), T(COLON), Num(<<"2">>), T(COMMA),
      StrTok(<<"t", "h", "r", "e", "e">>), T(COLON), Num(<<"3">>),
      T(RBRACE)>>

\* let = 5;
ScenarioLetNoName ==
    <<T(LET_), T(ASSIGN), Num(<<"5">>), T(SEMICOLON)>>

\* let x 5;
ScenarioLetNoAssign ==
    <<T(LET_), Id(<<"x">>), Num(<<"5">>), T(SEMICOLON)>>

\* foobar; @
ScenarioIllegal ==
    <<Id(<<"f", "o", "o", "b", "a", "r">>), T(SEMICOLON),
      Token(ILLEGAL, <<"@">>)>>

\* fn(@) { }
ScenarioIllegalParameter ==
    <<T(FUNCTION), T(LPAREN), Token(ILLEGAL, <<"@">>), T(RPAREN), T(LBRACE),
      T(RBRACE)>>

\* fn(1) { }
ScenarioIntegerParameter ==
    <<T(FUNCTION), T(LPAREN), Num(<<"1">>), T(RPAREN), T(LBRACE), T(RBRACE)>>

\* return 08;
ScenarioReturn ==
    <<T(RETURN), Num(<<"0", "8">>), T(SEMICOLON)>>

\* one integer literal: with and without leading zeros, and 1<<63
IntegerStreams ==
    { <<Num(digits)>> :
        digits \in { <<"0">>, <<"7">>, <<"1", "0">>, <<"0", "1", "0">>,
                     <<"0", "8">>, <<"0", "0", "1", "7">>,
                     <<"9", "2", "2", "3", "3", "7", "2", "0", "3", "6", "8",
                       "5", "4", "7", "7", "5", "8", "0", "8">> } }

Scenarios ==
    {ScenarioLet, ScenarioUnary, ScenarioIf, ScenarioFunction, ScenarioArray,
     ScenarioHash, ScenarioLetNoName, ScenarioLetNoAssign, ScenarioIllegal,
     ScenarioIllegalParameter, ScenarioIntegerParameter, ScenarioReturn}

\* s cut short after any token, and s with any one token left out
Damaged(s) ==
    {SubSeq(s, 1, n) : n \in 0..Len(s)}
    \cup {SubSeq(s, 1, i - 1) \o SubSeq(s, i + 1, Len(s)) : i \in 1..Len(s)}

StatementAlphabet ==
    {T(LET_), Id(<<"a">>), T(ASSIGN), Num(<<"1">>), T(PLUS), T(SEMICOLON)}

CallAlphabet ==
    {Id(<<"a">>), T(LPAREN), T(RPAREN), T(COMMA), T(LBRACKET), T(RBRACKET)}

BlockAlphabet ==
    {Id(<<"a">>), T(LBRACE), T(RBRACE), T(COLON), T(COMMA), T(FUNCTION)}

ParserInputs ==
    UNION {Damaged(s) : s \in Scenarios}
    \cup InfixTriples \cup PrefixStreams \cup {ScenarioSum}
    \cup IntegerStreams
    \cup StringsUpTo(StatementAlphabet, MaxTokens)
    \cup StringsUpTo(CallAlphabet, MaxTokens)
    \cup StringsUpTo(BlockAlphabet, MaxTokens)

(***************************************************************************)
(* Specifications                                                          *)
(***************************************************************************)
LexerIdle ==
    /\ input = <<>>
    /\ position = 0
    /\ readPosition = 1
    /\ ch = NUL
    /\ panicked = FALSE
    /\ lastTok = ZeroToken
    /\ emitted = <<>>
    /\ lexCalls = 0

\* the parser built by New on a lexer yielding stream; ParseProgram is called
Init ==
    /\ LexerIdle
    /\ PrinterIdle
    /\ stream \in ParserInputs
    /\ LET p == New
       IN  /\ lexPos = p.lexPos
           /\ curToken = p.curToken
           /\ peekToken = p.peekToken
           /\ errors = p.errors
    /\ program = NilPtr("Program")
    /\ stack = <<Frame("ParseProgram")>>
    /\ ret = Nil

Next ==
    \/ ParseProgram_entry
    \/ ParseProgram_afterStatement
    \/ parseStatement_entry
    \/ parseStatement_afterCall
    \/ parseLetStatement_entry
    \/ parseLetStatement_afterValue
    \/ parseReturnStatement_entry
    \/ parseReturnStatement_afterValue
    \/ parseExpressionStatement_entry
    \/ parseExpressionStatement_afterExpression
    \/ parseExpression_entry
    \/ parseExpression_afterPrefix
    \/ parseExpression_afterInfix
    \/ parsePrefixExpression_entry
    \/ parsePrefixExpression_afterRight
    \/ parseInfixExpression_entry
    \/ parseInfixExpression_afterRight
    \/ parseGroupedExpression_entry
    \/ parseGroupedExpression_afterExpression
    \/ parseIfExpression_entry
    \/ parseIfExpression_afterCondition
    \/ parseIfExpression_afterConsequence
    \/ parseIfExpression_afterAlternative
    \/ parseBlockStatement_entry
    \/ parseBlockStatement_afterStatement
    \/ parseFunctionLiteral_entry
    \/ parseFunctionLiteral_afterBody
    \/ parseCallExpression_entry
    \/ parseCallExpression_afterArguments
    \/ parseArrayLiteral_entry
    \/ parseArrayLiteral_afterElements
    \/ parseExpressionList_entry
    \/ parseExpressionList_afterElement
    \/ parseIndexExpression_entry
    \/ parseIndexExpression_afterIndex
    \/ parseHashLiteral_entry
    \/ parseHashLiteral_afterKey
    \/ parseHashLiteral_afterValue

Spec == Init /\ [][Next]_vars

\* every step is eventually taken: the program runs on until it returns
LiveSpec == Spec /\ WF_vars(Next)

\* ParseProgram has returned
Returned == stack = <<>>

\* the tokens lexer.New(s) yields before its EOF
Relex(s) == LET toks == AllTokens(s) IN SubSeq(toks, 1, Len(toks) - 1)

\* how often the caller renders one program
Renderings == 2

\* program.String(), called after ParseProgram has returned
ProgramString ==
    /\ Returned
    /\ Len(printed) < Renderings
    /\ \E r \in String(program) : printed' = Append(printed, r)
    /\ UNCHANGED <<lexVars, parserVars, reparsed, pass>>

\* p := parser.New(lexer.New(program.String())); p.ParseProgram(), for a
\* program that was parsed with no error
Reparse ==
    /\ Returned
    /\ pass = 1
    /\ errors = <<>>
    /\ \E i \in DOMAIN printed :
          /\ ~printed[i].panic
          /\ reparsed' = printed[i]
          /\ stream' = Relex(printed[i].out)
    /\ pass' = 2
    /\ printed' = <<>>
    /\ LET p == New'
       IN  /\ lexPos' = p.lexPos
           /\ curToken' = p.curToken
           /\ peekToken' = p.peekToken
           /\ errors' = p.errors
    /\ program' = NilPtr("Program")
    /\ stack' = <<Frame("ParseProgram")>>
    /\ ret' = Nil
    /\ UNCHANGED lexVars

PrintNext == Next \/ ProgramString \/ Reparse

\* parse, render, and lex and parse the rendering again
PrintSpec == Init /\ [][PrintNext]_vars

(***************************************************************************)
(* Properties of the parser                                                *)
(***************************************************************************)
IsPrefix(s, t) == Len(s) <= Len(t) /\ SubSeq(t, 1, Len(s)) = s

IdentNode(name) == Identifier(Id(name), name)
InfixNode(left, op, right) ==
    InfixExpression(T(op), left, FixedLiteral[op], right)
PrefixNode(op, right) == PrefixExpression(T(op), FixedLiteral[op], right)

\* the program whose one statement is the expression statement of expr,
\* which begins with token first
OneExpression(first, expr) ==
    [kind |-> "Program",
     Statements |-> <<ExpressionStatement(first, expr)>>]

\* the precedence lattice as the specification orders the binary operators
LatticeRank ==
    EQ :> 1 @@ NOT_EQ :> 1 @@ LT :> 2 @@ GT :> 2 @@ PLUS :> 3 @@
    MINUS :> 3 @@ ASTERISK :> 4 @@ SLASH :> 4

\* the grouping C1 states for a op1 b op2 c
TripleGrouping(op1, op2) ==
    LET a == IdentNode(<<"a">>)
        b == IdentNode(<<"b">>)
        c == IdentNode(<<"c">>)
    IN  IF LatticeRank[op2] > LatticeRank[op1]
        THEN InfixNode(a, op1, InfixNode(b, op2, c))
        ELSE InfixNode(InfixNode(a, op1, b), op2, c)

\* C1: a op1 b op2 c parses, without error, as (a op1 (b op2 c)) when op2
\* binds tighter than op1 and as ((a op1 b) op2 c) otherwise, so that equal
\* precedence groups to the left; 1 + 2 * 3 parses as (1 + (2 * 3)).
C1_InfixGrouping ==
    Returned =>
        /\ \A op1 \in BinaryOperators, op2 \in BinaryOperators :
              stream = <<Id(<<"a">>), T(op1), Id(<<"b">>), T(op2),
                         Id(<<"c">>)>>
              => /\ errors = <<>>
                 /\ program = OneExpression(Id(<<"a">>),
                                            TripleGrouping(op1, op2))
        /\ stream = ScenarioSum
              => program = OneExpression(Num(<<"1">>),
                    InfixNode(IntegerLiteral(Num(<<"1">>), 1), PLUS,
                        InfixNode(IntegerLiteral(Num(<<"2">>), 2), ASTERISK,
                                  IntegerLiteral(Num(<<"3">>), 3))))

\* a - b * c has been parsed with the product as the right operand of -,
\* and a - b + c has been parsed with the difference as the left operand of +
C1_Witness ==
    /\ Returned
    /\ stream \in InfixTriples
    /\ program.Statements[1].Expression.Operator \in {<<"-">>, <<"+">>}
    /\ \/ program.Statements[1].Expression.Right.kind = "InfixExpression"
       \/ program.Statements[1].Expression.Left.kind = "InfixExpression"

\* C2: the operand of ! and of unary - is parsed at PREFIX: in pre a op b
\* the binary operator is applied to (pre a), and in pre a[b] and pre a(b)
\* the prefix operator is applied to the index and the call expression.
C2_PrefixOperand ==
    /\ \A i \in 1..(Len(stack) - 1) :
          stack[i].fn = "parsePrefixExpression"
          => stack[i + 1].fn = "parseExpression" /\ stack[i + 1].prec = PREFIX
    /\ Returned =>
          \A pre \in PrefixOperators :
            LET a == IdentNode(<<"a">>)
                b == IdentNode(<<"b">>)
            IN  /\ \A op \in BinaryOperators :
                      stream = <<T(pre), Id(<<"a">>), T(op), Id(<<"b">>)>>
                      => program = OneExpression(T(pre),
                            InfixNode(PrefixNode(pre, a), op, b))
                /\ stream = <<T(pre), Id(<<"a">>), T(LBRACKET), Id(<<"b">>),
                              T(RBRACKET)>>
                      => program = OneExpression(T(pre),
                            PrefixNode(pre,
                                IndexExpression(T(LBRACKET), a, b)))
                /\ stream = <<T(pre), Id(<<"a">>), T(LPAREN), Id(<<"b">>),
                              T(RPAREN)>>
                      => program = OneExpression(T(pre),
                            PrefixNode(pre,
                                CallExpression(T(LPAREN), a,
                                               MkSlice(<<b>>))))

\* -a * b has been parsed as ((-a) * b)
C2_Witness ==
    /\ Returned
    /\ stream = <<T(MINUS), Id(<<"a">>), T(ASTERISK), Id(<<"b">>)>>
    /\ program.Statements[1].Expression.kind = "InfixExpression"
    /\ program.Statements[1].Expression.Left.kind = "PrefixExpression"

\* C3: every step leaves the error list as it was or appends to it.
C3_ErrorsOnlyGrow == [][IsPrefix(errors, errors')]_vars

\* two errors have been recorded, one after the other
C3_Witness == Returned /\ Len(errors) >= 2 /\ errors[1] # errors[2]

\* a step that ends an iteration of the loop of ParseProgram, of
\* parseBlockStatement or of parseHashLiteral
EndsIteration ==
    \/ At("ParseProgram", "afterStatement")
    \/ At("parseBlockStatement", "afterStatement")
    \/ At("parseHashLiteral", "afterValue")

\* C4: ParseProgram returns, and returns with cur = EOF; every iteration of
\* its loop, of the block loop and of the hash-literal loop ends with the
\* token cursor beyond where the iteration began.
C4_Terminates ==
    /\ <>Returned
    /\ [](Returned => curToken.Type = EOF)
    /\ [][EndsIteration => lexPos' > Top.mark]_vars

\* ParseProgram has returned from the hash literal of three pairs: three
\* iterations of the hash-literal loop and one of the top-level loop
C4_Witness ==
    /\ Returned
    /\ curToken.Type = EOF
    /\ stream = ScenarioHash
    /\ Len(program.Statements[1].Expression.Pairs) = 3

\* an Expression slot that holds a node whose own slots are filled
RECURSIVE SlotsFilled(_)
Filled(e) == e # Nil /\ SlotsFilled(e)

\* no Expression slot of node n or of a node below it is nil
SlotsFilled(n) ==
    IF IsNilPtr(n) THEN TRUE
    ELSE CASE n.kind = "Program" ->
                \A i \in DOMAIN n.Statements : SlotsFilled(n.Statements[i])
           [] n.kind = "LetStatement" -> Filled(n.Value)
           [] n.kind = "ReturnStatement" -> Filled(n.ReturnValue)
           [] n.kind = "ExpressionStatement" -> Filled(n.Expression)
           [] n.kind = "PrefixExpression" -> Filled(n.Right)
           [] n.kind = "InfixExpression" -> Filled(n.Left) /\ Filled(n.Right)
           [] n.kind = "IfExpression" ->
                /\ Filled(n.Condition)
                /\ SlotsFilled(n.Consequence)
                /\ SlotsFilled(n.Alternative)
           [] n.kind = "BlockStatement" ->
                \A i \in DOMAIN n.Statements : SlotsFilled(n.Statements[i])
           [] n.kind = "FunctionLiteral" -> SlotsFilled(n.Body)
           [] n.kind = "CallExpression" ->
                /\ Filled(n.Function)
                /\ \A i \in DOMAIN n.Arguments.elems :
                      Filled(n.Arguments.elems[i])
           [] n.kind = "ArrayLiteral" ->
                \A i \in DOMAIN n.Elements.elems : Filled(n.Elements.elems[i])
           [] n.kind = "IndexExpression" -> Filled(n.Left) /\ Filled(n.Index)
           [] n.kind = "HashLiteral" ->
                \A i \in DOMAIN n.Pairs :
                    Filled(n.Pairs[i].key) /\ Filled(n.Pairs[i].value)
           [] OTHER -> TRUE

\* C12: when ParseProgram has returned and the error list is empty, every
\* Expression slot of every node of the program holds a node.
C12_NoMissingExpression ==
    Returned /\ errors = <<>> => SlotsFilled(program)

\* a call with two arguments, one an infix expression, parsed with no error
C12_Witness ==
    /\ Returned
    /\ errors = <<>>
    /\ stream = ScenarioFunction
    /\ Len(program.Statements) = 2
    /\ program.Statements[2].Expression.kind = "CallExpression"
    /\ Len(program.Statements[2].Expression.Arguments.elems) = 2

\* C13: after ParseProgram every element of program.Statements is a statement
\* node, none a nil pointer left by a let statement that failed an expectPeek,
\* and every LetStatement among them has its Name.
C13_FailedLetIsDropped ==
    Returned =>
        \A i \in DOMAIN program.Statements :
            LET stmt == program.Statements[i]
            IN  /\ stmt # Nil
                /\ ~IsNilPtr(stmt)
                /\ stmt.kind = "LetStatement" => ~IsNilPtr(stmt.Name)

\* C14: parsing let = 5; leaves exactly one error, the missing identifier.
C14_LetWithoutNameOneError ==
    Returned /\ stream = ScenarioLetNoName
    => errors = <<"expected next token to be IDENT, got = instead">>

\* the program is one expression statement that holds a hash literal
IsHashProgram ==
    /\ Len(program.Statements) = 1
    /\ ~IsNilPtr(program.Statements[1])
    /\ program.Statements[1].kind = "ExpressionStatement"
    /\ program.Statements[1].Expression.kind = "HashLiteral"

TheHash == program.Statements[1].Expression

\* C15: String() of a hash literal of two or more pairs lists the pairs in
\* the order they were parsed, and two renderings of it are the same string.
C15_HashPairsInOrder ==
    \A i \in DOMAIN printed :
        IsHashProgram /\ Len(TheHash.Pairs) >= 2
        => /\ printed[i] \in HashLiteralString(PairStrings(TheHash.Pairs))
           /\ \A j \in DOMAIN printed : printed[j] = printed[i]

\* {one:1, two:2, three:3}
HashRendering ==
    <<"{", "o", "n", "e", ":", "1", ",", " ", "t", "w", "o", ":",
      "2", ",", " ", "t", "h", "r", "e", "e", ":", "3", "}">>

\* C16: the program parsed from {"one": 1, "two": 2, "three": 3} renders as
\* {one:1, two:2, three:3}: an opening brace, the pairs as key:value joined
\* by a comma and a space, and a closing brace.
C16_HashRendering ==
    pass = 1 /\ stream = ScenarioHash
    => \A i \in DOMAIN printed :
          printed[i] = [panic |-> FALSE, out |-> HashRendering]

\* if(x < y) x else y
IfRendering ==
    <<"i", "f", "(", "x", " ", "<", " ", "y", ")", " ", "x", " ",
      "e", "l", "s", "e", " ", "y">>

\* C17: parsing if (x < y) { x } else { y } records no error, and the
\* program renders as if(x < y) x else y.
C17_IfElseRendering ==
    pass = 1 /\ stream = ScenarioIf /\ Returned
    => /\ errors = <<>>
       /\ \A i \in DOMAIN printed :
             printed[i] = [panic |-> FALSE, out |-> IfRendering]

\* let add = fn(a, b) (a + b);(add(1, (2 * 3)))
CallRenderingInParentheses ==
    <<"l", "e", "t", " ", "a", "d", "d", " ", "=", " ", "f", "n",
      "(", "a", ",", " ", "b", ")", " ", "(", "a", " ", "+", " ",
      "b", ")", ";", "(", "a", "d", "d", "(", "1", ",", " ", "(",
      "2", " ", "*", " ", "3", ")", ")", ")">>

\* let add = fn(a, b) (a + b);add(1, (2 * 3))
CallRendering ==
    <<"l", "e", "t", " ", "a", "d", "d", " ", "=", " ", "f", "n",
      "(", "a", ",", " ", "b", ")", " ", "(", "a", " ", "+", " ",
      "b", ")", ";", "a", "d", "d", "(", "1", ",", " ", "(", "2",
      " ", "*", " ", "3", ")", ")">>

\* C18 as stated: parsing let add = fn(a, b) { a + b }; add(1, 2 * 3);
\* records no error, gives two statements, and the program renders as
\* let add = fn(a, b) (a + b);(add(1, (2 * 3))).
C18_FunctionAndCall ==
    pass = 1 /\ stream = ScenarioFunction /\ Returned
    => /\ errors = <<>>
       /\ Len(program.Statements) = 2
       /\ \A i \in DOMAIN printed :
             printed[i] = [panic |-> FALSE,
                           out |-> CallRenderingInParentheses]

\* C18 as amended: no error, two statements, and the program renders as
\* let add = fn(a, b) (a + b);add(1, (2 * 3)), the call not wrapped in
\* parentheses.
C18_FunctionAndCallAmended ==
    pass = 1 /\ stream = ScenarioFunction /\ Returned
    => /\ errors = <<>>
       /\ Len(program.Statements) = 2
       /\ \A i \in DOMAIN printed :
             printed[i] = [panic |-> FALSE, out |-> CallRendering]

\* the program of the function and the call has been rendered
C18_Witness ==
    /\ pass = 1
    /\ stream = ScenarioFunction
    /\ Returned
    /\ Len(printed) = Renderings

\* C19: when a program parsed with no error has been rendered and the
\* rendering lexed and parsed again, the second parse has no error either and
\* its program renders as the same string.
C19_RoundTrip ==
    pass = 2 /\ Returned
    => /\ errors = <<>>
       /\ \A i \in DOMAIN printed : printed[i] = reparsed

\* C20: when the token stream holds an ILLEGAL token, the error list is not
\* empty once ParseProgram has returned.
C20_IllegalTokenSurfaced ==
    Returned /\ (\E i \in DOMAIN stream : stream[i].Type = ILLEGAL)
    => errors # <<>>

\* the token types the parse functions call expectPeek with
ExpectedTypes ==
    {IDENT, ASSIGN, LPAREN, RPAREN, LBRACE, RBRACE, RBRACKET, COLON, COMMA}

\* C21: in every state of the parser, expectPeek(t) on a peek token of type t
\* moves cur and peek on by one token of the lexer and appends no error; on
\* another peek token it appends the one error "expected next token to be t,
\* got <peek type> instead" and leaves cur, peek and the lexer position alone.
C21_ExpectPeekFrame ==
    \A t \in ExpectedTypes :
        LET r == expectPeek(P, t)
        IN  IF peekToken.Type = t
            THEN /\ r.ok
                 /\ r.p.curToken = peekToken
                 /\ r.p.peekToken = StreamToken(lexPos)
                 /\ r.p.lexPos = lexPos + 1
                 /\ r.p.errors = errors
            ELSE /\ ~r.ok
                 /\ r.p.errors =
                        Append(errors, "expected next token to be " \o t
                                          \o ", got " \o peekToken.Type
                                          \o " instead")
                 /\ r.p.curToken = curToken
                 /\ r.p.peekToken = peekToken
                 /\ r.p.lexPos = lexPos

\* parseLetStatement has returned from its failed expectPeek(IDENT) on let = 5;
C21_Witness ==
    /\ stream = ScenarioLetNoName
    /\ errors = <<"expected next token to be IDENT, got = instead">>
    /\ curToken.Type = LET_
    /\ peekToken.Type = ASSIGN
    /\ lexPos = 2
    /\ ret = NilPtr("LetStatement")

\* C22: no call of Program.String() on a program ParseProgram has returned,
\* with or without errors, dereferences a nil node.
C22_RenderingTotal ==
    \A i \in DOMAIN printed : ~printed[i].panic

\* C23: an INT token of decimal digits whose decimal value fits in 64 bits
\* parses with no error to an IntegerLiteral of that decimal value, leading
\* zeros or not; "could not parse ... as integer" is recorded only when the
\* value does not fit.
C23_IntegerLiteralIsDecimal ==
    Returned /\ stream \in IntegerStreams
    => LET literal == stream[1].Literal
       IN  IF ~DigitsGreater(StripZeros(literal), MaxInt64Dec)
           THEN /\ errors = <<>>
                /\ Len(program.Statements) = 1
                /\ program.Statements[1].Expression # Nil
                /\ program.Statements[1].Expression.Value
                      = DigitsValue(literal, 10)
           ELSE errors = <<"could not parse \"" \o Str(literal)
                              \o "\" as integer">>

\* the elements of the array literal of [1, 2, 3][1 + 1]
ArrayElements ==
    program.Statements[1].Expression.Left.Elements

\* C24: parseExpressionList(end) returns the empty list with cur on the end
\* token when peek is the end token; when the token after the last element
\* is the end token it returns the elements parsed, in their order, with cur
\* on the end token and no error added; when that token is neither a comma
\* nor the end token it adds the one expectPeek error and returns no list.
\* The list of [1, 2, 3] is the three literals in source order.
C24_ExpressionList ==
    [][/\ At("parseExpressionList", "entry") /\ peekToken.Type = Top.end
          => /\ ret' = MkSlice(<<>>)
             /\ curToken' = peekToken
             /\ errors' = errors
       /\ At("parseExpressionList", "afterElement")
            /\ peekToken.Type = Top.end
          => /\ ret' = MkSlice(Append(Top.list, ret))
             /\ curToken' = peekToken
             /\ errors' = errors
       /\ At("parseExpressionList", "afterElement")
            /\ peekToken.Type \notin {COMMA, Top.end}
          => /\ ret' = NilSlice
             /\ errors' = Append(errors, "expected next token to be "
                                           \o Top.end \o ", got "
                                           \o peekToken.Type \o " instead")
             /\ curToken' = curToken
             /\ peekToken' = peekToken
       /\ Returned' /\ stream = ScenarioArray
          => /\ errors' = <<>>
             /\ ArrayElements' =
                   MkSlice([i \in 1..3 |->
                              IntegerLiteral(stream[2 * i], i)])]_vars

\* ParseProgram has returned from [1, 2, 3][1 + 1] with a list of three
C24_Witness ==
    /\ Returned
    /\ stream = ScenarioArray
    /\ errors = <<>>
    /\ Len(ArrayElements.elems) = 3
    /\ program.Statements[1].Expression.kind = "IndexExpression"

\* C25: every parameter of a function literal in the program ParseProgram
\* returns is an Identifier made from a token of type IDENT.
C25_ParametersAreIdentifiers ==
    Returned =>
        \A i \in DOMAIN program.Statements :
            LET stmt == program.Statements[i]
            IN  /\ ~IsNilPtr(stmt)
                /\ stmt.kind = "ExpressionStatement"
                /\ stmt.Expression.kind = "FunctionLiteral"
                => \A k \in DOMAIN stmt.Expression.Parameters.elems :
                      LET parameter == stmt.Expression.Parameters.elems[k]
                      IN  /\ parameter.kind = "Identifier"
                          /\ parameter.Token.Type = IDENT

\* cur and peek are the last two tokens the lexer has returned
Lookahead ==
    /\ lexPos >= 2
    /\ curToken = StreamToken(lexPos - 2)
    /\ peekToken = StreamToken(lexPos - 1)

\* C26: after New and after every step of the parser, cur and peek are two
\* consecutive tokens of the lexer's output, peek the one after cur, and the
\* number of tokens taken from the lexer never goes down.
C26_LookaheadInvariant ==
    [][Lookahead /\ Lookahead' /\ lexPos' >= lexPos]_vars

\* the parser has moved over let x = 1 and stands on + with 2 as peek
C26_Witness ==
    /\ stream = ScenarioLet
    /\ lexPos = 6
    /\ curToken = stream[5]
    /\ peekToken = stream[6]
    /\ errors = <<>>

====
